---- MODULE Spec2Model ----
(***************************************************************************)
(* Model of package filesystem (mnewswanger/filesystem).                   *)
(*                                                                         *)
(* Two struct lineages of the package are present in the sources:          *)
(*   - src/filesystem.go        : methods on the value  Filesystem         *)
(*                                (field logger), modelled under the       *)
(*                                source's names;                          *)
(*   - src/unnamed/part_001:1   : methods on the pointer *Filesystem       *)
(*                                (field Logger), modelled under the       *)
(*                                source's names with the suffix Ptr.      *)
(* They are two versions of the one package, so each has its own           *)
(* specification: Spec (src/filesystem.go) and SpecPtr (part_001).         *)
(* SpecRace is SpecPtr with a RemoveDirectory that other callers' calls    *)
(* can come between: the package coordinates nothing.                      *)
(*                                                                         *)
(* A path is the sequence of its segments, read from the root; "~" is the  *)
(* home shorthand and "~u" a user-specific shorthand (~user).  A string    *)
(* (ForceTrailingSlash) is the sequence of its characters.                 *)
(***************************************************************************)
EXTENDS Integers, Sequences, FiniteSets, TLC

\* ------------------------------------------------------------------ bounds
MaxDepth == 2      \* segments below the home directory
MaxLen   == 1      \* bytes in a file
MaxStr   == 3      \* characters in a ForceTrailingSlash argument
MaxVerbosity == 4  \* the Verbosity field ranges over 0..MaxVerbosity

\* ------------------------------------------------------------------ values
HomeDir   == <<"h">>          \* what homedir.Dir() resolves to
EmptyPath == <<"">>           \* the empty string "" as a path
Bytes     == {0}
Chars     == {"/", "t"}

RECURSIVE Chain(_)
Chain(i) == IF i = 0 THEN <<>> ELSE <<"a">> \o Chain(i - 1)

\* relative paths a/a/.. and a/a/../b of at most MaxDepth segments
RelPaths == {Chain(i) : i \in 0..MaxDepth}
              \cup {Chain(i) \o <<"b">> : i \in 0..(MaxDepth - 1)}

\* the entries the machine's filesystem can hold in this model
Nodes == {<<>>} \cup {HomeDir \o r : r \in RelPaths}

\* the path arguments callers pass: absolute, home shorthand, ~user
InputPaths == {HomeDir \o r : r \in RelPaths}
                \cup {<<"~">> \o r : r \in RelPaths}
                \cup {<<"~u">>, <<"~u", "a">>}

\* what the machine does to the open / read of one call: nothing, permission
\* denied at open, an I/O fault at the read that follows the open
Faults == {"none", "EACCES", "EIO"}

Contents == UNION {[1..n -> Bytes] : n \in 0..MaxLen}
Strings  == UNION {[1..n -> Chars] : n \in 0..MaxStr}

\* the logrus severity thresholds the package sets, coarsest first
Levels == <<"ErrorLevel", "WarnLevel", "InfoLevel", "DebugLevel">>
Rank(l) == CHOOSE i \in 1..Len(Levels) : Levels[i] = l

\* the level of a logger made by logrus.New(), and of logrus's standard logger
DefaultLevel == "InfoLevel"

NoEntry   == [kind |-> "none", data |-> <<>>]
DirEntry  == [kind |-> "dir", data |-> <<>>]
FileEntry(d) == [kind |-> "file", data |-> d]

Min(S) == CHOOSE x \in S : \A y \in S : x <= y

Parent(p) == SubSeq(p, 1, Len(p) - 1)

IsPrefix(p, q) == Len(p) <= Len(q) /\ SubSeq(q, 1, Len(p)) = p

\* ------------------------------------------------- native OS primitives
Kind(fs, p) == IF p \in DOMAIN fs THEN fs[p].kind ELSE "none"

\* the immediate children of p that exist
Children(fs, p) ==
    {q \in DOMAIN fs : Len(q) = Len(p) + 1 /\ IsPrefix(p, q) /\ fs[q].kind # "none"}

\* the first ancestor of p that is not a directory decides the errno of a lookup
Walk(fs, p) ==
    IF p = EmptyPath THEN "ENOENT"
    ELSE LET bad == {i \in 0..(Len(p) - 1) : Kind(fs, SubSeq(p, 1, i)) # "dir"}
         IN  IF bad = {} THEN "ok"
             ELSE IF Kind(fs, SubSeq(p, 1, Min(bad))) = "file" THEN "ENOTDIR"
             ELSE "ENOENT"

\* os.Stat: "dir" or "file" (a FileInfo), or the errno with a nil FileInfo
Stat(fs, p) ==
    IF Walk(fs, p) # "ok" THEN Walk(fs, p)
    ELSE IF Kind(fs, p) = "none" THEN "ENOENT"
    ELSE Kind(fs, p)

\* os.IsNotExist(err) of a Stat result
IsNotExist(st) == st = "ENOENT"

\* stat.IsDir() is reached with a nil FileInfo when Stat failed with an errno
\* other than ENOENT: a nil dereference
StatPanics(st) == st = "ENOTDIR"

\* os.MkdirAll(path, 0755)
MkdirAll(fs, p) ==
    IF p = EmptyPath THEN [fs |-> fs, err |-> "ENOENT"]
    ELSE IF \E i \in 0..Len(p) : Kind(fs, SubSeq(p, 1, i)) = "file"
         THEN [fs |-> fs, err |-> "ENOTDIR"]
    ELSE [fs  |-> [q \in DOMAIN fs |-> IF IsPrefix(q, p) THEN DirEntry ELSE fs[q]],
          err |-> "nil"]

\* os.RemoveAll(path): a missing path is no error
RemoveAll(fs, p) ==
    IF Stat(fs, p) \notin {"dir", "file"} THEN [fs |-> fs, err |-> "nil"]
    ELSE [fs  |-> [q \in DOMAIN fs |-> IF IsPrefix(p, q) THEN NoEntry ELSE fs[q]],
          err |-> "nil"]

\* os.Remove(path): a file or an empty directory
Remove(fs, p) ==
    IF Stat(fs, p) \notin {"dir", "file"} THEN [fs |-> fs, err |-> Stat(fs, p)]
    ELSE IF Children(fs, p) # {} THEN [fs |-> fs, err |-> "ENOTEMPTY"]
    ELSE [fs |-> [fs EXCEPT ![p] = NoEntry], err |-> "nil"]

\* OsWriteFile opened without O_TRUNC: the tail of a longer file survives
OsWriteFileNoTrunc(fs, p, data) ==
    IF Walk(fs, p) # "ok" THEN [fs |-> fs, err |-> Walk(fs, p)]
    ELSE IF Kind(fs, p) = "dir" THEN [fs |-> fs, err |-> "EISDIR"]
    ELSE [fs  |-> [fs EXCEPT ![p] =
                      FileEntry(data \o SubSeq(fs[p].data, Len(data) + 1, Len(fs[p].data)))],
          err |-> "nil"]

\* ioutil.WriteFile(path, data, mode): O_WRONLY|O_CREATE|O_TRUNC, then Write
OsWriteFile(fs, p, data) ==
    IF Walk(fs, p) # "ok" THEN [fs |-> fs, err |-> Walk(fs, p)]
    ELSE IF Kind(fs, p) = "dir" THEN [fs |-> fs, err |-> "EISDIR"]
    ELSE [fs |-> [fs EXCEPT ![p] = FileEntry(data)], err |-> "nil"]

\* ioutil.ReadFile(path)
ReadFile(fs, p) ==
    IF Stat(fs, p) = "file" THEN [out |-> fs[p].data, err |-> "nil"]
    ELSE IF Stat(fs, p) = "dir" THEN [out |-> <<>>, err |-> "EISDIR"]
    ELSE [out |-> <<>>, err |-> Stat(fs, p)]

\* ioutil.ReadDir(path): the names of the entries
ReadDir(fs, p) ==
    IF Stat(fs, p) = "dir" THEN [out |-> {q[Len(q)] : q \in Children(fs, p)}, err |-> "nil"]
    ELSE IF Stat(fs, p) = "file" THEN [out |-> {}, err |-> "ENOTDIR"]
    ELSE [out |-> {}, err |-> Stat(fs, p)]

\* os.Open(path): a handle, or the errno
Open(fs, p, io) ==
    IF io = "EACCES" THEN "EACCES"
    ELSE IF Stat(fs, p) \notin {"dir", "file"} THEN Stat(fs, p)
    ELSE "nil"

\* file.Readdir(1) on an opened directory: how many entries it returns
Readdir1(fs, p) == IF Children(fs, p) = {} THEN 0 ELSE 1

\* the error of file.Readdir(1): io.EOF at the end of the listing
Readdir1Err(fs, p, io) ==
    IF io = "EIO" THEN "EIO"
    ELSE IF Children(fs, p) = {} THEN "EOF"
    ELSE "nil"

\* ioutil.ReadFile(path) on a machine that may fail the open or the read
ReadFileIO(fs, p, io) ==
    IF io # "none" THEN [out |-> <<>>, err |-> io] ELSE ReadFile(fs, p)

\* sha256.Sum256 + hex.EncodeToString: a digest that determines the content
Sum256(data) == <<"sha256", data>>

\* homedir.Expand(path)
Expand(p) ==
    IF Len(p) = 0 THEN [path |-> p, err |-> "nil"]
    ELSE IF Head(p) = "~" THEN [path |-> HomeDir \o Tail(p), err |-> "nil"]
    ELSE IF Head(p) = "~u" THEN [path |-> EmptyPath, err |-> "expand"]
    ELSE [path |-> p, err |-> "nil"]

\* ------------------------------------------------------- results of a call
\* ok: the bool returned (or err == nil); out: file contents; str: a string;
\* names: directory entries; sum: a digest; io: what the machine did to the
\* call's open / read; open: the handles the call opened and has not closed
Ret(fs, ok, err, out) ==
    [fs |-> fs, ok |-> ok, err |-> err, out |-> out, str |-> <<>>,
     names |-> {}, sum |-> <<>>, io |-> "none", open |-> 0, panic |-> FALSE]

RetStr(str)             == [Ret(<<>>, TRUE, "nil", <<>>) EXCEPT !.str = str]
RetNames(fs, err, names) == [Ret(fs, err = "nil", err, <<>>) EXCEPT !.names = names]
RetSum(fs, sum)         == [Ret(fs, TRUE, "nil", <<>>) EXCEPT !.sum = sum]

\* the call does not return: a Go panic unwinds it
Panic(fs) == [Ret(fs, FALSE, "panic", <<>>) EXCEPT !.panic = TRUE]

\* ------------------------------------ src/filesystem.go: value receivers
\* initialize() has a value receiver: the logger it creates is assigned to its
\* own copy of the struct, so the caller's logger field is what construction
\* left there.  lg is that field: "nil" or "supplied".
initialize(lg) == lg

\* logrus.SetLevel sets the level of logrus's process-wide standard logger,
\* not of the logger just created; Verbosity above 2 sets nothing
initializeStd(lg, v, s) ==
    IF lg # "nil" THEN s
    ELSE CASE v = 0 -> "WarnLevel"
           [] v = 1 -> "InfoLevel"
           [] v = 2 -> "DebugLevel"
           [] OTHER -> s

\* fs.logger.Info on a nil *logrus.Logger dereferences nil
BuildAbsolutePathFromHome(lg, path) ==
    [path  |-> Expand(path).path,
     err   |-> Expand(path).err,
     panic |-> initialize(lg) = "nil"]

CheckExists(lg, fs, path) ==
    LET b == BuildAbsolutePathFromHome(lg, path)
    IN  IF b.panic THEN Panic(fs)
        ELSE IF b.err = "nil" /\ ~IsNotExist(Stat(fs, b.path))
             THEN Ret(fs, TRUE, b.err, <<>>)
        ELSE Ret(fs, FALSE, b.err, <<>>)

IsDirectory(lg, fs, path) ==
    LET b  == BuildAbsolutePathFromHome(lg, path)
        st == Stat(fs, b.path)
    IN  IF b.panic THEN Panic(fs)
        ELSE IF IsNotExist(st) THEN Ret(fs, FALSE, "nil", <<>>)
        ELSE IF StatPanics(st) THEN Panic(fs)
        ELSE Ret(fs, st = "dir", "nil", <<>>)

IsFile(lg, fs, path) ==
    LET b  == BuildAbsolutePathFromHome(lg, path)
        st == Stat(fs, b.path)
    IN  IF b.panic THEN Panic(fs)
        ELSE IF IsNotExist(st) THEN Ret(fs, FALSE, "nil", <<>>)
        ELSE IF StatPanics(st) THEN Panic(fs)
        ELSE Ret(fs, st # "dir", "nil", <<>>)

CreateDirectory(lg, fs, path) ==
    LET b == BuildAbsolutePathFromHome(lg, path)
        d == IsDirectory(lg, fs, b.path)
        m == MkdirAll(fs, b.path)
    IN  IF b.panic THEN Panic(fs)
        ELSE IF b.err # "nil"
             THEN IF d.panic THEN Panic(fs)
                  ELSE IF d.ok THEN Ret(fs, TRUE, b.err, <<>>)
                  ELSE Ret(m.fs, m.err = "nil", m.err, <<>>)
        ELSE Ret(fs, TRUE, "nil", <<>>)

\* path[len(path)-1] of the empty string is an index out of range
ForceTrailingSlash(path) ==
    IF Len(path) = 0 THEN Panic(<<>>)
    ELSE IF path[Len(path)] # "/" THEN RetStr(Append(path, "/"))
    ELSE RetStr(path)

\* no expansion: the path is read as written
GetDirectoryContents(fs, path) ==
    RetNames(fs, ReadDir(fs, path).err, ReadDir(fs, path).out)

GetFileSHA256Checksum(lg, fs, path, io) ==
    LET b == BuildAbsolutePathFromHome(lg, path)
        f == IsFile(lg, fs, b.path)
        r == ReadFileIO(fs, b.path, io)
    IN  IF b.panic THEN Panic(fs)
        ELSE IF b.err # "nil" THEN Ret(fs, FALSE, b.err, <<>>)
        ELSE IF f.panic THEN Panic(fs)
        ELSE IF ~f.ok THEN Ret(fs, FALSE, "not a file", <<>>)
        ELSE IF r.err = "nil" THEN RetSum(fs, Sum256(r.out))
        ELSE Ret(fs, FALSE, r.err, <<>>)

\* the file os.Open returns is never closed; a Readdir error other than io.EOF
\* is handed to panic()
IsEmptyDirectory(lg, fs, path, io) ==
    LET b == BuildAbsolutePathFromHome(lg, path)
        d == IsDirectory(lg, fs, b.path)
    IN  IF b.panic \/ d.panic THEN Panic(fs)
        ELSE IF ~d.ok THEN Ret(fs, FALSE, "nil", <<>>)
        ELSE IF Open(fs, b.path, io) # "nil" THEN Ret(fs, FALSE, "nil", <<>>)
        ELSE IF Readdir1Err(fs, b.path, io) \notin {"nil", "EOF"}
             THEN [Panic(fs) EXCEPT !.open = 1]
        ELSE [Ret(fs, Readdir1(fs, b.path) = 0, "nil", <<>>) EXCEPT !.open = 1]

\* "contents, err := ioutil.ReadFile" declares a new err in the inner block:
\* a failed read falls through to "return "", err" with the outer, nil err
LoadFileIfExists(lg, fs, path, io) ==
    LET b == BuildAbsolutePathFromHome(lg, path)
        f == IsFile(lg, fs, b.path)
        r == ReadFileIO(fs, b.path, io)
    IN  IF b.panic THEN Panic(fs)
        ELSE IF b.err # "nil" THEN Ret(fs, FALSE, b.err, <<>>)
        ELSE IF f.panic THEN Panic(fs)
        ELSE IF ~f.ok THEN Ret(fs, FALSE, "not a file", <<>>)
        ELSE IF r.err = "nil" THEN Ret(fs, TRUE, "nil", r.out)
        ELSE Ret(fs, FALSE, "nil", <<>>)

\* the directory check expands the path; os.RemoveAll / os.Remove get it as written
RemoveDirectory(lg, fs, path, recursive) ==
    LET d == IsDirectory(lg, fs, path)
        r == IF recursive THEN RemoveAll(fs, path) ELSE Remove(fs, path)
    IN  IF d.panic THEN Panic(fs)
        ELSE IF ~d.ok THEN Ret(fs, FALSE, "not a directory", <<>>)
        ELSE IF r.err = "nil" THEN Ret(r.fs, TRUE, "nil", <<>>)
        ELSE Ret(fs, FALSE, r.err, <<>>)

WriteFile(lg, fs, path, data) ==
    LET b == BuildAbsolutePathFromHome(lg, path)
        w == OsWriteFile(fs, b.path, data)
    IN  IF b.panic THEN Panic(fs)
        ELSE IF b.err # "nil" THEN Ret(fs, FALSE, b.err, <<>>)
        ELSE Ret(w.fs, w.err = "nil", w.err, <<>>)

\* ------------------------------- src/unnamed/part_001: pointer receivers
\* initialize() stores the logger it creates in the caller's struct
initializePtr(Lg) == IF Lg = "nil" THEN "created" ELSE Lg

\* fs.Logger.Level of the logger initialize() creates; a logger already there
\* keeps its level
initializeLevelPtr(Lg, v, lv) ==
    IF Lg # "nil" THEN lv
    ELSE CASE v = 0 -> "ErrorLevel"
           [] v = 1 -> "WarnLevel"
           [] v \in {2, 3} -> "InfoLevel"
           [] OTHER -> "DebugLevel"

BuildAbsolutePathFromHomePtr(path) == Expand(path)

isDirectory(fs, path) ==
    IF IsNotExist(Stat(fs, path)) THEN Ret(fs, FALSE, "nil", <<>>)
    ELSE IF StatPanics(Stat(fs, path)) THEN Panic(fs)
    ELSE Ret(fs, Stat(fs, path) = "dir", "nil", <<>>)

isFile(fs, path) ==
    IF IsNotExist(Stat(fs, path)) THEN Ret(fs, FALSE, "nil", <<>>)
    ELSE IF StatPanics(Stat(fs, path)) THEN Panic(fs)
    ELSE Ret(fs, Stat(fs, path) # "dir", "nil", <<>>)

CheckExistsPtr(fs, path) ==
    LET b == BuildAbsolutePathFromHomePtr(path)
    IN  Ret(fs, b.err = "nil" /\ ~IsNotExist(Stat(fs, b.path)), "nil", <<>>)

\* CreateDirectoryPtr with the error check inverted, as in src/filesystem.go
CreateDirectoryPtrInverted(fs, path) ==
    LET b == BuildAbsolutePathFromHomePtr(path)
        d == isDirectory(fs, b.path)
        m == MkdirAll(fs, b.path)
    IN  IF b.err = "nil" THEN Ret(fs, TRUE, "nil", <<>>)
        ELSE IF d.panic THEN Panic(fs)
        ELSE IF d.ok THEN Ret(fs, TRUE, b.err, <<>>)
        ELSE Ret(m.fs, m.err = "nil", m.err, <<>>)

CreateDirectoryPtr(fs, path) ==
    LET b == BuildAbsolutePathFromHomePtr(path)
        d == isDirectory(fs, b.path)
        m == MkdirAll(fs, b.path)
    IN  IF b.err # "nil" THEN Ret(fs, FALSE, b.err, <<>>)
        ELSE IF d.panic THEN Panic(fs)
        ELSE IF d.ok THEN Ret(fs, TRUE, "nil", <<>>)
        ELSE Ret(m.fs, m.err = "nil", m.err, <<>>)

ForceTrailingSlashPtr(path) ==
    IF Len(path) = 0 THEN RetStr(<<"/">>)
    ELSE IF path[Len(path)] # "/" THEN RetStr(Append(path, "/"))
    ELSE RetStr(path)

\* the expansion's error is overwritten by ioutil.ReadDir's
GetDirectoryContentsPtr(fs, path) ==
    LET b == BuildAbsolutePathFromHomePtr(path)
        r == ReadDir(fs, b.path)
    IN  RetNames(fs, r.err, r.out)

GetFileSHA256ChecksumPtr(fs, path, io) ==
    LET b == BuildAbsolutePathFromHomePtr(path)
        f == isFile(fs, b.path)
        r == ReadFileIO(fs, b.path, io)
    IN  IF b.err # "nil" THEN Ret(fs, FALSE, b.err, <<>>)
        ELSE IF f.panic THEN Panic(fs)
        ELSE IF ~f.ok THEN Ret(fs, FALSE, "not a file", <<>>)
        ELSE IF r.err = "nil" THEN RetSum(fs, Sum256(r.out))
        ELSE Ret(fs, FALSE, r.err, <<>>)

IsDirectoryPtr(fs, path) ==
    LET b == BuildAbsolutePathFromHomePtr(path)
        d == isDirectory(fs, b.path)
    IN  IF b.err # "nil" THEN Ret(fs, FALSE, "nil", <<>>) ELSE d

\* the file os.Open returns is never closed; a Readdir error other than io.EOF
\* falls through to "return false"
IsEmptyDirectoryPtr(fs, path, io) ==
    LET b == BuildAbsolutePathFromHomePtr(path)
        d == isDirectory(fs, b.path)
    IN  IF b.err # "nil" THEN Ret(fs, FALSE, "nil", <<>>)
        ELSE IF d.panic THEN Panic(fs)
        ELSE IF ~d.ok THEN Ret(fs, FALSE, "nil", <<>>)
        ELSE IF Open(fs, b.path, io) # "nil" THEN Ret(fs, FALSE, "nil", <<>>)
        ELSE IF Readdir1Err(fs, b.path, io) \notin {"nil", "EOF"}
             THEN [Ret(fs, FALSE, "nil", <<>>) EXCEPT !.open = 1]
        ELSE [Ret(fs, Readdir1(fs, b.path) = 0, "nil", <<>>) EXCEPT !.open = 1]

IsFilePtr(fs, path) ==
    LET b == BuildAbsolutePathFromHomePtr(path)
        f == isFile(fs, b.path)
    IN  IF b.err # "nil" THEN Ret(fs, FALSE, "nil", <<>>) ELSE f

\* the inner "contents, err :=" shadows err as in src/filesystem.go
LoadFileIfExistsPtr(fs, path, io) ==
    LET b == BuildAbsolutePathFromHomePtr(path)
        f == isFile(fs, b.path)
        r == ReadFileIO(fs, b.path, io)
    IN  IF b.err # "nil" THEN Ret(fs, FALSE, b.err, <<>>)
        ELSE IF f.panic THEN Panic(fs)
        ELSE IF ~f.ok THEN Ret(fs, FALSE, "not a file", <<>>)
        ELSE IF r.err = "nil" THEN Ret(fs, TRUE, "nil", r.out)
        ELSE Ret(fs, FALSE, "nil", <<>>)

\* RemoveDirectory up to its directory check: TRUE when the check passes
RemoveDirectoryCheckPtr(fs, path) ==
    LET b == BuildAbsolutePathFromHomePtr(path)
        d == isDirectory(fs, b.path)
    IN  b.err = "nil" /\ ~d.panic /\ d.ok

\* RemoveDirectory from the native removal on, once the check has passed
RemoveDirectoryRemovePtr(fs, path, recursive) ==
    LET b == BuildAbsolutePathFromHomePtr(path)
        r == IF recursive THEN RemoveAll(fs, b.path) ELSE Remove(fs, b.path)
    IN  IF r.err = "nil" THEN Ret(r.fs, TRUE, "nil", <<>>)
        ELSE Ret(fs, FALSE, r.err, <<>>)

\* RemoveDirectoryPtr that ignores recursive and always calls os.RemoveAll
RemoveDirectoryPtrAlwaysAll(fs, path, recursive) ==
    LET b == BuildAbsolutePathFromHomePtr(path)
        d == isDirectory(fs, b.path)
        r == RemoveAll(fs, b.path)
    IN  IF b.err # "nil" THEN Ret(fs, FALSE, b.err, <<>>)
        ELSE IF d.panic THEN Panic(fs)
        ELSE IF ~d.ok THEN Ret(fs, FALSE, "not a directory", <<>>)
        ELSE IF r.err = "nil" THEN Ret(r.fs, TRUE, "nil", <<>>)
        ELSE Ret(fs, FALSE, r.err, <<>>)

\* the expanded path is checked and removed
RemoveDirectoryPtr(fs, path, recursive) ==
    LET b == BuildAbsolutePathFromHomePtr(path)
        d == isDirectory(fs, b.path)
        r == IF recursive THEN RemoveAll(fs, b.path) ELSE Remove(fs, b.path)
    IN  IF b.err # "nil" THEN Ret(fs, FALSE, b.err, <<>>)
        ELSE IF d.panic THEN Panic(fs)
        ELSE IF ~d.ok THEN Ret(fs, FALSE, "not a directory", <<>>)
        ELSE IF r.err = "nil" THEN Ret(r.fs, TRUE, "nil", <<>>)
        ELSE Ret(fs, FALSE, r.err, <<>>)

WriteFilePtr(fs, path, data) ==
    LET b == BuildAbsolutePathFromHomePtr(path)
        w == OsWriteFile(fs, b.path, data)
    IN  IF b.err # "nil" THEN Ret(fs, FALSE, b.err, <<>>)
        ELSE Ret(w.fs, w.err = "nil", w.err, <<>>)

\* ------------------------------------------------------------------ state
VARIABLES
    fsys,      \* the machine's filesystem: Nodes -> entry
    pre,       \* fsys as it was when the last call (its last native step) was made
    logger,    \* the struct's logger field (logger / Logger): "nil", "supplied", "created"
    Verbosity, \* the struct's Verbosity field
    level,     \* the Level of the struct's logger; "none" while the field is nil
    std,       \* the level of logrus's process-wide standard logger
    rd,        \* a RemoveDirectory in flight between its check and its removal
    last       \* the call that has just returned or panicked; op "none" between calls

vars == <<fsys, pre, logger, Verbosity, level, std, rd, last>>

Call(op, path, recursive, data, r) ==
    [op |-> op, path |-> path, recursive |-> recursive, data |-> data,
     ok |-> r.ok, err |-> r.err, out |-> r.out, str |-> r.str,
     names |-> r.names, sum |-> r.sum, io |-> r.io, open |-> r.open,
     panic |-> r.panic]

NoCall == Call("none", <<>>, FALSE, <<>>, Ret(<<>>, FALSE, "nil", <<>>))

Entries == {NoEntry, DirEntry} \cup {FileEntry(d) : d \in Contents}

\* / is a directory, and an entry exists only inside a directory
WellFormed(fs) ==
    /\ fs[<<>>] = DirEntry
    /\ \A q \in DOMAIN fs : fs[q].kind # "none" /\ Len(q) > 0 => fs[Parent(q)].kind = "dir"

\* the machine's filesystem is whatever it is when the program starts; the
\* struct is constructed with or without a logger
NoRemoval == [pc |-> "idle", path |-> <<>>, recursive |-> FALSE]

\* the struct is Filesystem{Verbosity: i} or Filesystem{Logger: logrus.New()}
Init ==
    /\ fsys \in {fs \in [Nodes -> Entries] : WellFormed(fs)}
    /\ pre = fsys
    /\ logger \in {"nil", "supplied"}
    /\ Verbosity \in (IF logger = "supplied" THEN {0} ELSE 0..MaxVerbosity)
    /\ level = (IF logger = "supplied" THEN DefaultLevel ELSE "none")
    /\ std = DefaultLevel
    /\ rd = NoRemoval
    /\ last = NoCall

\* no call is in progress: the caller may make one
Idle == last.op = "none" /\ rd.pc = "idle"

\* a call on the Filesystem value of src/filesystem.go
Val(op, path, recursive, data, r) ==
    /\ Idle
    /\ fsys' = r.fs
    /\ pre' = fsys
    /\ last' = Call(op, path, recursive, data, r)
    /\ logger' = initialize(logger)
    /\ std' = initializeStd(logger, Verbosity, std)
    /\ UNCHANGED <<Verbosity, level, rd>>

\* a call on the *Filesystem of src/unnamed/part_001
Ptr(op, path, recursive, data, r) ==
    /\ Idle
    /\ fsys' = r.fs
    /\ pre' = fsys
    /\ last' = Call(op, path, recursive, data, r)
    /\ logger' = initializePtr(logger)
    /\ level' = initializeLevelPtr(logger, Verbosity, level)
    /\ UNCHANGED <<Verbosity, std, rd>>

\* the caller takes the result and goes on; a panic ends the program
Return ==
    /\ last.op # "none"
    /\ ~last.panic
    /\ last' = NoCall
    /\ pre' = fsys
    /\ UNCHANGED <<fsys, logger, Verbosity, level, std, rd>>

DoBuildAbsolutePathFromHome ==
    /\ Idle
    /\ \E p \in InputPaths :
           LET b == BuildAbsolutePathFromHome(logger, p)
           IN  Val("BuildAbsolutePathFromHome", p, FALSE, <<>>,
                   IF b.panic THEN Panic(fsys)
                   ELSE [Ret(fsys, b.err = "nil", b.err, <<>>) EXCEPT !.str = b.path])
DoCheckExists ==
    /\ Idle
    /\ \E p \in InputPaths : Val("CheckExists", p, FALSE, <<>>, CheckExists(logger, fsys, p))
DoCreateDirectory ==
    /\ Idle
    /\ \E p \in InputPaths : Val("CreateDirectory", p, FALSE, <<>>, CreateDirectory(logger, fsys, p))
DoForceTrailingSlash ==
    /\ Idle
    /\ \E s \in Strings :
           Val("ForceTrailingSlash", s, FALSE, <<>>, [ForceTrailingSlash(s) EXCEPT !.fs = fsys])
DoGetDirectoryContents ==
    /\ Idle
    /\ \E p \in InputPaths : Val("GetDirectoryContents", p, FALSE, <<>>, GetDirectoryContents(fsys, p))
DoGetFileSHA256Checksum ==
    /\ Idle
    /\ \E p \in InputPaths, io \in Faults :
           Val("GetFileSHA256Checksum", p, FALSE, <<>>,
               [GetFileSHA256Checksum(logger, fsys, p, io) EXCEPT !.io = io])
DoIsDirectory ==
    /\ Idle
    /\ \E p \in InputPaths : Val("IsDirectory", p, FALSE, <<>>, IsDirectory(logger, fsys, p))
DoIsFile ==
    /\ Idle
    /\ \E p \in InputPaths : Val("IsFile", p, FALSE, <<>>, IsFile(logger, fsys, p))
DoIsEmptyDirectory ==
    /\ Idle
    /\ \E p \in InputPaths, io \in Faults :
           Val("IsEmptyDirectory", p, FALSE, <<>>,
               [IsEmptyDirectory(logger, fsys, p, io) EXCEPT !.io = io])
DoLoadFileIfExists ==
    /\ Idle
    /\ \E p \in InputPaths, io \in Faults :
           Val("LoadFileIfExists", p, FALSE, <<>>,
               [LoadFileIfExists(logger, fsys, p, io) EXCEPT !.io = io])
DoRemoveDirectory ==
    /\ Idle
    /\ \E p \in InputPaths, rec \in BOOLEAN :
           Val("RemoveDirectory", p, rec, <<>>, RemoveDirectory(logger, fsys, p, rec))
DoWriteFile ==
    /\ Idle
    /\ \E p \in InputPaths, d \in Contents :
           Val("WriteFile", p, FALSE, d, WriteFile(logger, fsys, p, d))

DoBuildAbsolutePathFromHomePtr ==
    /\ Idle
    /\ \E p \in InputPaths :
           LET b == BuildAbsolutePathFromHomePtr(p)
           IN  Ptr("BuildAbsolutePathFromHome", p, FALSE, <<>>,
                   [Ret(fsys, b.err = "nil", b.err, <<>>) EXCEPT !.str = b.path])
DoCheckExistsPtr ==
    /\ Idle
    /\ \E p \in InputPaths : Ptr("CheckExists", p, FALSE, <<>>, CheckExistsPtr(fsys, p))
DoCreateDirectoryPtr ==
    /\ Idle
    /\ \E p \in InputPaths : Ptr("CreateDirectory", p, FALSE, <<>>, CreateDirectoryPtr(fsys, p))
DoForceTrailingSlashPtr ==
    /\ Idle
    /\ \E s \in Strings :
           Ptr("ForceTrailingSlash", s, FALSE, <<>>, [ForceTrailingSlashPtr(s) EXCEPT !.fs = fsys])
DoGetDirectoryContentsPtr ==
    /\ Idle
    /\ \E p \in InputPaths : Ptr("GetDirectoryContents", p, FALSE, <<>>, GetDirectoryContentsPtr(fsys, p))
DoGetFileSHA256ChecksumPtr ==
    /\ Idle
    /\ \E p \in InputPaths, io \in Faults :
           Ptr("GetFileSHA256Checksum", p, FALSE, <<>>,
               [GetFileSHA256ChecksumPtr(fsys, p, io) EXCEPT !.io = io])
DoIsDirectoryPtr ==
    /\ Idle
    /\ \E p \in InputPaths : Ptr("IsDirectory", p, FALSE, <<>>, IsDirectoryPtr(fsys, p))
DoIsFilePtr ==
    /\ Idle
    /\ \E p \in InputPaths : Ptr("IsFile", p, FALSE, <<>>, IsFilePtr(fsys, p))
DoIsEmptyDirectoryPtr ==
    /\ Idle
    /\ \E p \in InputPaths, io \in Faults :
           Ptr("IsEmptyDirectory", p, FALSE, <<>>,
               [IsEmptyDirectoryPtr(fsys, p, io) EXCEPT !.io = io])
DoLoadFileIfExistsPtr ==
    /\ Idle
    /\ \E p \in InputPaths, io \in Faults :
           Ptr("LoadFileIfExists", p, FALSE, <<>>,
               [LoadFileIfExistsPtr(fsys, p, io) EXCEPT !.io = io])
DoRemoveDirectoryPtr ==
    /\ Idle
    /\ \E p \in InputPaths, rec \in BOOLEAN :
           Ptr("RemoveDirectory", p, rec, <<>>, RemoveDirectoryPtr(fsys, p, rec))
DoWriteFilePtr ==
    /\ Idle
    /\ \E p \in InputPaths, d \in Contents :
           Ptr("WriteFile", p, FALSE, d, WriteFilePtr(fsys, p, d))

\* src/filesystem.go
Next ==
    \/ DoBuildAbsolutePathFromHome
    \/ DoCheckExists
    \/ DoCreateDirectory
    \/ DoForceTrailingSlash
    \/ DoGetDirectoryContents
    \/ DoGetFileSHA256Checksum
    \/ DoIsDirectory
    \/ DoIsFile
    \/ DoIsEmptyDirectory
    \/ DoLoadFileIfExists
    \/ DoRemoveDirectory
    \/ DoWriteFile
    \/ Return

Spec == Init /\ [][Next]_vars

\* src/unnamed/part_001
NextPtr ==
    \/ DoBuildAbsolutePathFromHomePtr
    \/ DoCheckExistsPtr
    \/ DoCreateDirectoryPtr
    \/ DoForceTrailingSlashPtr
    \/ DoGetDirectoryContentsPtr
    \/ DoGetFileSHA256ChecksumPtr
    \/ DoIsDirectoryPtr
    \/ DoIsFilePtr
    \/ DoIsEmptyDirectoryPtr
    \/ DoLoadFileIfExistsPtr
    \/ DoRemoveDirectoryPtr
    \/ DoWriteFilePtr
    \/ Return

SpecPtr == Init /\ [][NextPtr]_vars

\* ------------------- src/unnamed/part_001 with callers that are not coordinated
\* a caller's RemoveDirectory has made its directory check
DoRemoveDirectoryCheckPtr ==
    /\ Idle
    /\ \E p \in InputPaths, rec \in BOOLEAN :
           /\ RemoveDirectoryCheckPtr(fsys, p)
           /\ rd' = [pc |-> "checked", path |-> p, recursive |-> rec]
    /\ logger' = initializePtr(logger)
    /\ level' = initializeLevelPtr(logger, Verbosity, level)
    /\ UNCHANGED <<fsys, pre, Verbosity, std, last>>

\* before it goes on, another caller completes a call that changes the filesystem
OtherCaller ==
    /\ rd.pc = "checked"
    /\ \E p \in InputPaths, d \in Contents, rec \in BOOLEAN :
           fsys' \in {WriteFilePtr(fsys, p, d).fs,
                      CreateDirectoryPtr(fsys, p).fs,
                      RemoveDirectoryPtr(fsys, p, rec).fs}
    /\ fsys' # fsys
    /\ pre' = fsys'
    /\ UNCHANGED <<logger, Verbosity, level, std, rd, last>>

\* it goes on to os.RemoveAll / os.Remove and returns
DoRemoveDirectoryRemovePtr ==
    /\ rd.pc = "checked"
    /\ LET r == RemoveDirectoryRemovePtr(fsys, rd.path, rd.recursive)
       IN  /\ fsys' = r.fs
           /\ last' = Call("RemoveDirectory", rd.path, rd.recursive, <<>>, r)
    /\ pre' = fsys
    /\ rd' = NoRemoval
    /\ UNCHANGED <<logger, Verbosity, level, std>>

NextRace ==
    \/ NextPtr
    \/ DoRemoveDirectoryCheckPtr
    \/ OtherCaller
    \/ DoRemoveDirectoryRemovePtr

SpecRace == Init /\ [][NextRace]_vars

\* ------------------------------------------------------------ well-formedness
TypeOK ==
    /\ fsys \in [Nodes -> Entries]
    /\ WellFormed(fsys)
    /\ logger \in {"nil", "supplied", "created"}
    /\ Verbosity \in 0..MaxVerbosity
    /\ level \in {"none"} \cup {Levels[i] : i \in 1..Len(Levels)}
    /\ std \in {Levels[i] : i \in 1..Len(Levels)}
    /\ rd.pc \in {"idle", "checked"}

\* ------------------------------------------------------------------ claims
\* the path a call's argument resolves to, when the expansion succeeds
Resolves(p) == Expand(p).err = "nil"
Resolved(p) == Expand(p).path

\* no segment of p, p included, is occupied by a non-directory entry
Unoccupied(fs, p) == \A i \in 0..Len(p) : Kind(fs, SubSeq(p, 1, i)) # "file"

\* the struct was constructed with a logger, so no call panics on a nil logger
HasLogger == logger # "nil"

\* C1 (src/filesystem.go): for a path P none of whose segments is occupied by
\* a non-directory entry, CreateDirectory(P) returns (true, nil), P is a
\* directory afterwards, and a second CreateDirectory(P) again returns
\* (true, nil) and leaves P a directory.  Stated for a struct constructed with
\* a logger.
C1_CreateDirectoryIdempotent ==
    (/\ last.op = "CreateDirectory"
     /\ HasLogger
     /\ Resolves(last.path)
     /\ Unoccupied(pre, Resolved(last.path)))
    => LET again == CreateDirectory(logger, fsys, last.path)
       IN  /\ ~last.panic /\ last.ok /\ last.err = "nil"
           /\ Stat(fsys, Resolved(last.path)) = "dir"
           /\ ~again.panic /\ again.ok /\ again.err = "nil"
           /\ Stat(again.fs, Resolved(last.path)) = "dir"

\* C2 (src/unnamed/part_001): when CreateDirectory(P) succeeds, P and every
\* ancestor segment of P are directories afterwards, whatever existed before.
C2_CreateDirectoryMkdirP ==
    (last.op = "CreateDirectory" /\ last.ok /\ last.err = "nil")
    => \A i \in 0..Len(Resolved(last.path)) :
           Stat(fsys, SubSeq(Resolved(last.path), 1, i)) = "dir"

\* C2's case: a nested home-shorthand path was created in one call when not
\* even the home directory existed
C2_Witness ==
    /\ last.op = "CreateDirectory" /\ last.ok /\ last.err = "nil"
    /\ Len(Resolved(last.path)) > MaxDepth
    /\ \A i \in 1..Len(Resolved(last.path)) :
           /\ Kind(pre, SubSeq(Resolved(last.path), 1, i)) = "none"
           /\ Kind(fsys, SubSeq(Resolved(last.path), 1, i)) = "dir"

\* C3 (src/filesystem.go): RemoveDirectory(D, true) on an existing directory
\* D, in every path form the directory check accepts, returns (true, nil) and
\* D does not exist afterwards.  Stated for a struct constructed with a logger.
C3_RemoveDirectoryRecursive ==
    (/\ last.op = "RemoveDirectory"
     /\ last.recursive
     /\ HasLogger
     /\ Stat(pre, Resolved(last.path)) = "dir")
    => /\ ~last.panic /\ last.ok /\ last.err = "nil"
       /\ \A q \in Nodes : IsPrefix(Resolved(last.path), q) => Kind(fsys, q) = "none"
       /\ ~CheckExists(logger, fsys, last.path).ok

\* C4 (src/unnamed/part_001): RemoveDirectory(D, false) on a non-empty
\* directory D returns (false, error) and changes nothing; on an empty
\* directory it returns (true, nil) and removes D and nothing else.
C4_RemoveDirectoryNonRecursive ==
    (/\ last.op = "RemoveDirectory"
     /\ ~last.recursive
     /\ Resolves(last.path)
     /\ Stat(pre, Resolved(last.path)) = "dir")
    => IF Children(pre, Resolved(last.path)) # {}
       THEN /\ ~last.panic /\ ~last.ok /\ last.err # "nil"
            /\ fsys = pre
       ELSE /\ ~last.panic /\ last.ok /\ last.err = "nil"
            /\ fsys = [pre EXCEPT ![Resolved(last.path)] = NoEntry]
            /\ ~CheckExistsPtr(fsys, last.path).ok

\* C4's case: the non-recursive removal of a directory that holds an entry
\* was refused
C4_Witness ==
    /\ last.op = "RemoveDirectory" /\ ~last.recursive
    /\ Stat(pre, Resolved(last.path)) = "dir"
    /\ Children(pre, Resolved(last.path)) # {}
    /\ ~last.ok /\ last.err = "ENOTEMPTY"
    /\ fsys = pre

\* C5 (src/unnamed/part_001, the API src/filesystem_test.go calls): on a path
\* that resolves to something other than an existing regular file,
\* LoadFileIfExists and GetFileSHA256Checksum return "" and an "is not a file"
\* error; on a path that resolves to something other than an existing
\* directory, RemoveDirectory returns (false, "is not a directory" error); the
\* filesystem is unchanged.
C5_TypeMismatchIsAnError ==
    /\ (/\ last.op \in {"LoadFileIfExists", "GetFileSHA256Checksum"}
        /\ Resolves(last.path)
        /\ ~(Walk(pre, Resolved(last.path)) = "ok" /\ Kind(pre, Resolved(last.path)) = "file"))
       => /\ ~last.panic /\ ~last.ok
          /\ last.out = <<>> /\ last.sum = <<>> /\ last.err = "not a file"
          /\ fsys = pre
    /\ (/\ last.op = "RemoveDirectory"
        /\ Resolves(last.path)
        /\ ~(Walk(pre, Resolved(last.path)) = "ok" /\ Kind(pre, Resolved(last.path)) = "dir"))
       => /\ ~last.panic /\ ~last.ok
          /\ last.err = "not a directory"
          /\ fsys = pre

\* C6 (src/filesystem.go): after a successful WriteFile(P, b), LoadFileIfExists(P)
\* (its read not failing) returns exactly b and a nil error, and changes nothing.
C6_WriteLoadRoundTrip ==
    (last.op = "WriteFile" /\ ~last.panic /\ last.err = "nil")
    => LoadFileIfExists(logger, fsys, last.path, "none") = Ret(fsys, TRUE, "nil", last.data)

\* C6's case: the write replaced a file that held longer content
C6_Witness ==
    /\ last.op = "WriteFile" /\ ~last.panic /\ last.err = "nil"
    /\ Kind(pre, Resolved(last.path)) = "file"
    /\ Len(pre[Resolved(last.path)].data) > Len(last.data)
    /\ LoadFileIfExists(logger, fsys, last.path, "none").out = last.data

\* C7 (src/filesystem.go): on a path at which no entry exists, CheckExists,
\* IsFile and IsDirectory return false.  Stated for a struct constructed with a
\* logger.
C7_AbsentPathIsNothing ==
    (/\ last.op \in {"CheckExists", "IsFile", "IsDirectory"}
     /\ HasLogger
     /\ Resolves(last.path)
     /\ Kind(pre, Resolved(last.path)) = "none")
    => ~last.panic /\ ~last.ok

\* C8 (src/filesystem.go): IsEmptyDirectory(P) returns true exactly when P
\* resolves to an existing directory with no entry, and false otherwise.
\* Stated for a struct constructed with a logger, on a machine that fails
\* neither the open nor the read.
C8_IsEmptyDirectoryIff ==
    (last.op = "IsEmptyDirectory" /\ HasLogger /\ last.io = "none")
    => /\ ~last.panic
       /\ last.ok <=> (/\ Resolves(last.path)
                       /\ Kind(pre, Resolved(last.path)) = "dir"
                       /\ Children(pre, Resolved(last.path)) = {})

\* C9 (src/filesystem.go): WriteFile(P, data) where the parent directory of P
\* does not exist returns a non-nil error and creates nothing.
C9_WriteFileMissingParent ==
    (/\ last.op = "WriteFile"
     /\ Resolves(last.path)
     /\ Kind(pre, Parent(Resolved(last.path))) # "dir")
    => /\ ~last.panic
       /\ last.err # "nil"
       /\ fsys = pre

\* what C10 says of a string s
TrailingSlashOf(s) ==
    IF Len(s) > 0 /\ s[Len(s)] = "/" THEN s ELSE Append(s, "/")

\* C10 (src/filesystem.go): ForceTrailingSlash returns for every string: "/"
\* for the empty string, s itself when s ends with "/", s + "/" otherwise.
C10_ForceTrailingSlashTotal ==
    last.op = "ForceTrailingSlash"
    => ~last.panic /\ last.str = TrailingSlashOf(last.path)

\* C11 (src/filesystem.go): the predicates CheckExists, IsDirectory, IsFile and
\* IsEmptyDirectory never panic, and return false when the expansion fails,
\* when os.Stat fails with an error other than not-found, and when the open or
\* the read of the directory fails.  Stated for a struct constructed with a
\* logger.
C11_PredicatesFoldFailures ==
    (/\ last.op \in {"CheckExists", "IsDirectory", "IsFile", "IsEmptyDirectory"}
     /\ HasLogger)
    => /\ ~last.panic
       /\ (\/ ~Resolves(last.path)
           \/ Stat(pre, Resolved(last.path)) \notin {"dir", "file", "ENOENT"}
           \/ /\ last.op = "IsEmptyDirectory"
              /\ last.io # "none"
              /\ Stat(pre, Resolved(last.path)) = "dir")
          => ~last.ok

\* the level initialize() puts in force for a struct without a logger
Threshold(v) == initializeStd("nil", v, DefaultLevel)

\* C12 (src/filesystem.go): on a struct constructed without a logger, the
\* first operation (BuildAbsolutePathFromHome, as in TestLoggingOptions) leaves
\* the struct with a logger it created and has used without panicking; that
\* logger's level is ErrorLevel for Verbosity 0 and DebugLevel for the highest
\* Verbosity, and the level derived from Verbosity never gets coarser as
\* Verbosity grows.  A logger supplied at construction is used with the level
\* it came with.
C12_LazyLogger ==
    /\ (last.op = "BuildAbsolutePathFromHome" /\ logger # "supplied")
       => /\ ~last.panic
          /\ logger = "created"
          /\ Verbosity = 0 => level = "ErrorLevel"
          /\ Verbosity = MaxVerbosity => level = "DebugLevel"
          /\ \A v, w \in 0..MaxVerbosity :
                 v <= w => Rank(Threshold(v)) <= Rank(Threshold(w))
    /\ (last.op = "BuildAbsolutePathFromHome" /\ logger = "supplied")
       => ~last.panic /\ level = DefaultLevel

\* C13 (src/unnamed/part_001): when LoadFileIfExists is called on an existing
\* regular file and the read of the file fails, the call returns the read's
\* error, never "" with a nil error.
C13_LoadFileReadFailure ==
    (/\ last.op = "LoadFileIfExists"
     /\ Resolves(last.path)
     /\ Stat(pre, Resolved(last.path)) = "file"
     /\ last.io # "none")
    => /\ ~last.panic
       /\ last.err = last.io
       /\ ~(last.out = <<>> /\ last.err = "nil")

\* C14 (src/unnamed/part_001): every handle a call opens is closed when the
\* call returns: no call leaves a handle open.
C14_HandlesClosed == last.open = 0

\* C15 (src/unnamed/part_001, callers not coordinated): RemoveDirectory never
\* deletes a regular file: no entry that is a regular file at the path when
\* the native removal starts is gone when RemoveDirectory returns.
C15_RemoveDirectoryOnlyDirectories ==
    (last.op = "RemoveDirectory" /\ Resolves(last.path))
    => ~(/\ Kind(pre, Resolved(last.path)) = "file"
         /\ Kind(fsys, Resolved(last.path)) = "none")

====
